---- MODULE Spec2Model ----
(***************************************************************************)
(* Model of scripts/parallel_perf_test.py: the two protocol drivers        *)
(* (fetch_user_rest, fetch_user_grpc), the concurrent executors            *)
(* (execute_rest_requests, execute_grpc_requests) on a ThreadPoolExecutor, *)
(* calculate_metrics, the three renderers and main.                        *)
(*                                                                         *)
(* Numbers that are floats in the program (latencies, averages, rates,     *)
(* percentages) are exact rationals [n, d] here; comparisons and the       *)
(* truth test "if x" are the program's.                                    *)
(*                                                                         *)
(* Spec: main and direct executor calls, worker by worker.                 *)
(* SpecLive: the same steps under fair scheduling.                         *)
(* SpecCompare: one metric's comparison in the three renderings.           *)
(* SpecMetrics: calculate_metrics on a record collection and a reordering. *)
(***************************************************************************)
EXTENDS Integers, Sequences, FiniteSets, TLC

\* ---------------------------------------------------------------- bounds
\* Longest identifier list handed directly to an executor.
MaxBatch == 3
\* Largest worker-pool bound handed directly to an executor.
MaxWorkers == 2
\* Largest --requests value of a run of main.
MaxArgRequests == 1
\* Longest identifier list of the runs checked under fair scheduling.
MaxLiveBatch == 2
\* Longest record collection of which every content and order is enumerated.
MaxRecords == 3
\* Largest metric value compared by the renderers in SpecCompare.
MaxVal == 3

\* max_workers: int = 100, the default main() runs both executors with.
DefaultMaxWorkers == 100

\* Identifiers a direct executor call may be given (duplicates allowed).
UserIds == {1, 2}
\* Measured per-request latencies (ms) and batch durations (s).
Latencies == {1}
Durations == {1, 2}
\* Sizes of a decoded response body.
PayloadSizes == {1}

\* Optional[str] = None
None == "None"

\* ------------------------------------------------------------- rationals
RECURSIVE Gcd(_, _)
Gcd(a, b) == IF b = 0 THEN a ELSE Gcd(b, a % b)

Abs(x) == IF x < 0 THEN -x ELSE x

\* n/d in lowest terms, d > 0.
Rat(n, d) ==
    LET g == Gcd(Abs(n), Abs(d))
        s == IF d < 0 THEN -1 ELSE 1
    IN  [n |-> (s * n) \div g, d |-> (s * d) \div g]

Zero == Rat(0, 1)
RLt(a, b) == a.n * b.d < b.n * a.d
RSub(a, b) == Rat(a.n * b.d - b.n * a.d, a.d * b.d)
RMul(a, b) == Rat(a.n * b.n, a.d * b.d)
\* a / b, b # 0
RDiv(a, b) == Rat(a.n * b.d, a.d * b.n)
RAbs(a) == [n |-> Abs(a.n), d |-> a.d]
\* Python's truth test of a number: "x if v else 0"
Truthy(a) == a.n # 0

\* sum(s), added up by halves
RECURSIVE SumSeq(_)
SumSeq(s) ==
    IF Len(s) = 0 THEN 0
    ELSE IF Len(s) = 1 THEN s[1]
    ELSE LET h == Len(s) \div 2 IN
         SumSeq(SubSeq(s, 1, h)) + SumSeq(SubSeq(s, h + 1, Len(s)))

\* ------------------------------------------------------ protocol drivers
\* RequestResult (dataclass)
RequestResult(success, response_time, payload_size, user_id, error_message, error_type) ==
    [success |-> success, response_time |-> response_time,
     payload_size |-> payload_size, user_id |-> user_id,
     error_message |-> error_message, error_type |-> error_type]

\* What a driver call hands back to its caller: a record, or an exception
\* that leaves the function.
Returned(r) == [raised |-> FALSE, value |-> r]
Propagated(exc) == [raised |-> TRUE, value |-> exc]

\* Classes an exception raised inside the driver's try block is an instance of.
Bases(exc) ==
    CASE exc = "ReadTimeout" ->
           {"ReadTimeout", "Timeout", "RequestException", "OSError", "Exception"}
      [] exc = "ConnectionError" ->
           {"ConnectionError", "RequestException", "OSError", "Exception"}
      [] exc = "_InactiveRpcError" -> {"_InactiveRpcError", "RpcError", "Exception"}
      [] exc = "ValueError" -> {"ValueError", "Exception"}
      [] OTHER -> {exc}

\* What requests.get(..., timeout=30) can do.
RestOutcomes ==
    [kind : {"response"}, status : {200, 404}, size : PayloadSizes, exc : {None}, code : {None}]
    \cup [kind : {"raise"}, status : {0}, size : {0},
          exc : {"ReadTimeout", "ConnectionError"}, code : {None}]

\* What stub.GetUser(request, timeout=30) can do on an open channel.
GrpcOutcomes ==
    [kind : {"response"}, status : {0}, size : PayloadSizes, exc : {None}, code : {None}]
    \cup [kind : {"raise"}, status : {0}, size : {0}, exc : {"_InactiveRpcError"},
          code : {"NOT_FOUND", "DEADLINE_EXCEEDED"}]
    \cup [kind : {"raise"}, status : {0}, size : {0}, exc : {"ValueError"}, code : {None}]

\* grpc raises ValueError("Cannot invoke RPC on closed channel!") once closed.
ClosedChannelOutcome ==
    [kind |-> "raise", status |-> 0, size |-> 0, exc |-> "ValueError", code |-> None]

\* What a future holds before its call has ended: nothing to read yet.
NoResult == Returned(RequestResult(FALSE, 0, 0, 0, None, None))

\* No network call was made.
NoOutcome == [kind |-> "none", status |-> 0, size |-> 0, exc |-> None, code |-> None]

\* The call ran past timeout=30: requests raises a Timeout, grpc an RpcError
\* whose status code is DEADLINE_EXCEEDED.
TimedOut(o) ==
    /\ o.kind = "raise"
    /\ \/ "Timeout" \in Bases(o.exc)
       \/ "RpcError" \in Bases(o.exc) /\ o.code = "DEADLINE_EXCEEDED"

StatusText(status) == IF status = 200 THEN "200" ELSE IF status = 404 THEN "404" ELSE "0"

fetch_user_rest_nocatch(user_id, o, lat) ==
    IF o.kind = "response"
    THEN IF o.status = 200
         THEN Returned(RequestResult(TRUE, lat, o.size, user_id, None, None))
         ELSE Returned(RequestResult(FALSE, lat, 0, user_id,
                                     "HTTP " \o StatusText(o.status),
                                     "HTTP_" \o StatusText(o.status)))
    ELSE IF "Timeout" \in Bases(o.exc)
         THEN Returned(RequestResult(FALSE, lat, 0, user_id, "Request timeout", "TIMEOUT"))
         ELSE Propagated(o.exc)

fetch_user_rest(user_id, o, lat) ==
    IF o.kind = "response"
    THEN IF o.status = 200
         THEN Returned(RequestResult(TRUE, lat, o.size, user_id, None, None))
         ELSE Returned(RequestResult(FALSE, lat, 0, user_id,
                                     "HTTP " \o StatusText(o.status),
                                     "HTTP_" \o StatusText(o.status)))
    ELSE IF "Timeout" \in Bases(o.exc)
         THEN Returned(RequestResult(FALSE, lat, 0, user_id, "Request timeout", "TIMEOUT"))
         ELSE IF "Exception" \in Bases(o.exc)
              THEN Returned(RequestResult(FALSE, lat, 0, user_id, "str(e)", o.exc))
              ELSE Propagated(o.exc)

fetch_user_grpc(user_id, o, lat) ==
    IF o.kind = "response"
    THEN Returned(RequestResult(TRUE, lat, o.size, user_id, None, None))
    ELSE IF "RpcError" \in Bases(o.exc)
         THEN Returned(RequestResult(FALSE, lat, 0, user_id, "e.details()", o.code))
         ELSE IF "Exception" \in Bases(o.exc)
              THEN Returned(RequestResult(FALSE, lat, 0, user_id, "str(e)", o.exc))
              ELSE Propagated(o.exc)

\* ------------------------------------------------------------------ state
VARIABLES
    entry,        \* which function the process runs: main or one executor directly
    pc,           \* position of the caller (main, or the direct caller)
    args,         \* parsed command line of main
    exit_code,    \* process exit status; -1 while running
    min_id, max_id,
    rest_ok, grpc_ok,  \* main's pre-flight flags
    probes,       \* pre-flight probe requests sent so far
    user_ids,     \* the identifier list of the batch
    max_workers,  \* worker-pool bound of the batch
    fault,        \* list position whose driver invocation is a simulated fault; 0 = none
    proto,        \* protocol of the batch in progress: "REST", "gRPC" or None
    bpc,          \* position of the executor's calling thread
    submitted,    \* futures created by executor.submit, in list order
    started,      \* work items taken off the pool's FIFO queue
    fstate,       \* future state per list position
    fvalue,       \* what each finished future holds
    fnet,         \* what the network call of each finished driver call did
    yielded,      \* futures as_completed has handed out
    results,      \* the executor's results list
    calls,        \* driver invocations per list position
    channel,      \* the batch's shared gRPC channel: None, "open", "closed"
    closes,       \* channel.close() calls of the batch
    ret,          \* what a direct executor call gave its caller
    rest_ret, grpc_ret,         \* main's (results, duration) pairs
    rest_metrics, grpc_metrics, \* main's MetricResults
    report,       \* what main printed
    cmp,          \* one metric's pair of values handed to the renderers
    console_row, json_row, csv_row, \* that metric's comparison in each rendering
    cm_results,      \* a record collection handed to calculate_metrics
    cm_passed,       \* that collection as it was when the call was made
    cm_reordered,    \* the same records in another completion order
    cm_duration,     \* the batch duration handed over with them
    cm_ret, cm_ret_reordered  \* what calculate_metrics gave for each order

callerVars == <<entry, pc, args, exit_code, min_id, max_id, rest_ok, grpc_ok, probes, ret,
                rest_ret, grpc_ret>>
batchVars == <<user_ids, max_workers, fault, proto, bpc, submitted, started, fstate,
               fvalue, fnet, yielded, results, calls, channel, closes>>
reportVars == <<rest_metrics, grpc_metrics, report>>
cmpVars == <<cmp, console_row, json_row, csv_row>>
metricVars == <<cm_results, cm_passed, cm_reordered, cm_duration, cm_ret, cm_ret_reordered>>
vars == <<callerVars, batchVars, reportVars, cmpVars, metricVars>>

Positions == 1..Len(user_ids)
\* Driver calls that have started and not yet returned
InFlight == Cardinality({i \in DOMAIN fstate : fstate[i] = "RUNNING"})
AllFinished == \A i \in DOMAIN fstate : fstate[i] = "FINISHED"

\* ---------------------------------------------------- concurrent executor
\* ThreadPoolExecutor(max_workers=max_workers): a work item is taken off the
\* queue only by a worker thread, and there are at most max_workers of them.
WorkerAvailable_unbounded == TRUE
WorkerAvailable == InFlight < max_workers

\* The (results, total_duration) pair of an executor that has not returned.
NoBatchRet == [results |-> <<>>, total_duration |-> 0]
NoRet == [status |-> "none", value |-> NoBatchRet]

\* results.append(future.result()) for a future holding a record
Appended_skipfailed(rs, r) == IF r.success THEN Append(rs, r) ELSE rs
Appended(rs, r) == Append(rs, r)

\* The callable a worker runs for list position i. A simulated fault stands
\* for a driver that raises instead of returning a record.
TaskCall(p, i, o, lat) ==
    IF i = fault THEN Propagated("SimulatedFault")
    ELSE IF p = "REST" THEN fetch_user_rest(user_ids[i], o, lat)
    ELSE fetch_user_grpc(user_ids[i], o, lat)

NetOutcomes(p) ==
    IF p = "REST" THEN RestOutcomes
    ELSE IF channel = "closed" THEN {ClosedChannelOutcome} ELSE GrpcOutcomes

\* start_time, results = [], (gRPC: channel and stub), with ThreadPoolExecutor(...)
BeginBatch(p) ==
    /\ bpc = "idle"
    /\ \/ entry = "main" /\ pc = (IF p = "REST" THEN "execute_rest" ELSE "execute_grpc")
       \/ pc = "call" /\ entry = (IF p = "REST" THEN "execute_rest_requests"
                                               ELSE "execute_grpc_requests")
    /\ proto' = p
    /\ bpc' = "run"
    /\ submitted' = 0
    /\ started' = 0
    /\ fstate' = [i \in Positions |-> "NEW"]
    /\ fvalue' = [i \in Positions |-> NoResult]
    /\ fnet' = [i \in Positions |-> NoOutcome]
    /\ yielded' = {}
    /\ results' = <<>>
    /\ calls' = [i \in Positions |-> 0]
    /\ channel' = IF p = "gRPC" THEN "open" ELSE None
    /\ closes' = 0
    /\ pc' = IF entry = "main" THEN pc ELSE "in_call"
    /\ UNCHANGED <<entry, args, exit_code, min_id, max_id, rest_ok, grpc_ok, probes, ret,
                   rest_ret, grpc_ret>>
    /\ UNCHANGED <<user_ids, max_workers, fault>>
    /\ UNCHANGED <<reportVars, cmpVars, metricVars>>

\* futures = [executor.submit(...) for uid in user_ids], one element at a time
Submit ==
    /\ bpc = "run"
    /\ submitted < Len(user_ids)
    /\ submitted' = submitted + 1
    /\ fstate' = [fstate EXCEPT ![submitted + 1] = "PENDING"]
    /\ UNCHANGED <<user_ids, max_workers, fault, proto, bpc, started, fvalue, fnet, yielded,
                   results, calls, channel, closes>>
    /\ UNCHANGED <<callerVars, reportVars, cmpVars, metricVars>>

\* A worker thread takes the next work item and enters the driver call.
WorkerStart ==
    /\ bpc \in {"run", "unwinding"}
    /\ started < submitted
    /\ WorkerAvailable
    /\ started' = started + 1
    /\ fstate' = [fstate EXCEPT ![started + 1] = "RUNNING"]
    /\ calls' = [calls EXCEPT ![started + 1] = @ + 1]
    /\ UNCHANGED <<user_ids, max_workers, fault, proto, bpc, submitted, fvalue, fnet, yielded,
                   results, channel, closes>>
    /\ UNCHANGED <<callerVars, reportVars, cmpVars, metricVars>>

\* The driver call of position i ends; the future gets its result or exception.
WorkerFinish(i) ==
    /\ bpc \in {"run", "unwinding"}
    /\ fstate[i] = "RUNNING"
    /\ \E o \in NetOutcomes(proto), lat \in Latencies :
          /\ fvalue' = [fvalue EXCEPT ![i] = TaskCall(proto, i, o, lat)]
          /\ fnet' = [fnet EXCEPT ![i] = IF i = fault THEN NoOutcome ELSE o]
    /\ fstate' = [fstate EXCEPT ![i] = "FINISHED"]
    /\ UNCHANGED <<user_ids, max_workers, fault, proto, bpc, submitted, started, yielded,
                   results, calls, channel, closes>>
    /\ UNCHANGED <<callerVars, reportVars, cmpVars, metricVars>>

\* for future in as_completed(futures): results.append(future.result())
\* future.result() re-raises the exception a future holds; the with block is
\* then left by that exception (ThreadPoolExecutor.__exit__: shutdown(wait=True)).
Collect(i) ==
    /\ bpc = "run"
    /\ submitted = Len(user_ids)
    /\ fstate[i] = "FINISHED"
    /\ i \notin yielded
    /\ yielded' = yielded \cup {i}
    /\ IF fvalue[i].raised
       THEN /\ bpc' = "unwinding"
            /\ results' = results
       ELSE /\ bpc' = bpc
            /\ results' = Appended(results, fvalue[i].value)
    /\ UNCHANGED <<user_ids, max_workers, fault, proto, submitted, started, fstate,
                   fvalue, fnet, calls, channel, closes>>
    /\ UNCHANGED <<callerVars, reportVars, cmpVars, metricVars>>

\* as_completed(futures) is exhausted: it has handed out every future, each
\* one after it finished.
AsCompletedExhausted_first == yielded # {}
AsCompletedExhausted == yielded = Positions /\ AllFinished

\* The for loop ended: the with block is left normally; shutdown(wait=True).
LeaveWith ==
    /\ bpc = "run"
    /\ submitted = Len(user_ids)
    /\ AsCompletedExhausted
    /\ bpc' = IF proto = "gRPC" THEN "close" ELSE "return"
    /\ UNCHANGED <<user_ids, max_workers, fault, proto, submitted, started, fstate,
                   fvalue, fnet, yielded, results, calls, channel, closes>>
    /\ UNCHANGED <<callerVars, reportVars, cmpVars, metricVars>>

\* channel.close() (execute_grpc_requests only)
CloseChannel ==
    /\ bpc = "close"
    /\ channel' = "closed"
    /\ closes' = closes + 1
    /\ bpc' = "return"
    /\ UNCHANGED <<user_ids, max_workers, fault, proto, submitted, started, fstate,
                   fvalue, fnet, yielded, results, calls>>
    /\ UNCHANGED <<callerVars, reportVars, cmpVars, metricVars>>

\* end_time; return results, total_duration
ReturnBatch ==
    /\ bpc = "return"
    /\ bpc' = "idle"
    /\ \E d \in Durations :
        LET r == [results |-> results, total_duration |-> d] IN
        IF entry = "main"
        THEN /\ IF proto = "REST"
                THEN rest_ret' = r /\ grpc_ret' = grpc_ret /\ pc' = "execute_grpc"
                ELSE grpc_ret' = r /\ rest_ret' = rest_ret /\ pc' = "calculate_metrics"
             /\ ret' = ret
        ELSE /\ ret' = [status |-> "returned", value |-> r]
             /\ pc' = "returned"
             /\ UNCHANGED <<rest_ret, grpc_ret>>
    /\ UNCHANGED <<entry, args, exit_code, min_id, max_id, rest_ok, grpc_ok, probes>>
    /\ UNCHANGED <<user_ids, max_workers, fault, proto, submitted, started, fstate,
                   fvalue, fnet, yielded, results, calls, channel, closes>>
    /\ UNCHANGED <<reportVars, cmpVars, metricVars>>

\* The exception of future.result() leaves the executor function once
\* shutdown(wait=True) has joined the workers; nothing after the with block runs.
RaiseBatch ==
    /\ bpc = "unwinding"
    /\ started = Len(user_ids)
    /\ AllFinished
    /\ bpc' = "raised"
    /\ IF entry = "main"
       THEN pc' = "exit" /\ exit_code' = 1 /\ ret' = ret
       ELSE pc' = "raised" /\ exit_code' = exit_code
            /\ ret' = [status |-> "raised", value |-> NoBatchRet]
    /\ UNCHANGED <<entry, args, min_id, max_id, rest_ok, grpc_ok, probes, rest_ret, grpc_ret>>
    /\ UNCHANGED <<user_ids, max_workers, fault, proto, submitted, started, fstate,
                   fvalue, fnet, yielded, results, calls, channel, closes>>
    /\ UNCHANGED <<reportVars, cmpVars, metricVars>>

\* ------------------------------------------------------- calculate_metrics
\* The stable merge of two ascending runs: an element of a goes before the
\* elements of b that are not smaller.
Merge(a, b) ==
    LET posA(i) == i + Cardinality({j \in 1..Len(b) : b[j] < a[i]})
        posB(j) == j + Cardinality({i \in 1..Len(a) : a[i] <= b[j]})
    IN  [k \in 1..(Len(a) + Len(b)) |->
            IF \E i \in 1..Len(a) : posA(i) = k
            THEN a[CHOOSE i \in 1..Len(a) : posA(i) = k]
            ELSE b[CHOOSE j \in 1..Len(b) : posB(j) = k]]

Sorted_arrival(s) == s

\* sorted(response_times): a new list in ascending order (a merge sort)
RECURSIVE Sorted(_)
Sorted(s) ==
    IF Len(s) <= 1 THEN s
    ELSE LET h == Len(s) \div 2 IN
         Merge(Sorted(SubSeq(s, 1, h)), Sorted(SubSeq(s, h + 1, Len(s))))

\* [r.<f> for r in rs]
MapField(rs, f) == [i \in 1..Len(rs) |-> rs[i][f]]

IsSuccess_any(r) == TRUE
IsSuccess(r) == r.success
IsFailure_any(r) == TRUE
IsFailure(r) == ~r.success

\* result.error_type or "UNKNOWN"
ErrorKey(r) == IF r.error_type = None \/ r.error_type = "" THEN "UNKNOWN" ELSE r.error_type

\* statistics.median: the middle value, or the mean of the two middle values
Median(st) ==
    LET n == Len(st) IN
    IF n % 2 = 1 THEN Rat(st[(n \div 2) + 1], 1)
    ELSE Rat(st[n \div 2] + st[(n \div 2) + 1], 2)

\* min(response_times), max(response_times)
MinOf(s) == CHOOSE x \in {s[i] : i \in 1..Len(s)} : \A i \in 1..Len(s) : x <= s[i]
MaxOf(s) == CHOOSE x \in {s[i] : i \in 1..Len(s)} : \A i \in 1..Len(s) : x >= s[i]

\* int(len(sorted_times) * p), p given in hundredths. For every length up to
\* 10^6 the double product len * 0.95 (len * 0.99) truncates to the same
\* integer as the exact quotient.
PctIndex_ceil(n, p) == ((n * p) + 99) \div 100
PctIndex(n, p) == (n * p) \div 100

\* sorted_times[int(len(sorted_times) * p)]
Percentile(st, p) == st[PctIndex(Len(st), p) + 1]

SumSquares(s) == SumSeq([i \in 1..Len(s) |-> s[i] * s[i]])

\* statistics.stdev: the square root of the sample variance. The value is
\* carried as the exact variance it is the root of.
Stdev(xs) ==
    LET n == Len(xs) IN
    [sqrt_of |-> Rat((n * SumSquares(xs)) - (SumSeq(xs) * SumSeq(xs)), n * (n - 1))]
NoStdev == [sqrt_of |-> Zero]

\* The conditions calculate_metrics tests before it computes a statistic.
RateGuard(total_requests) == total_requests > 0
HasSuccess(successful_results) == successful_results # <<>>
PctGuard(sorted_times) == sorted_times # <<>>
StdevGuard_always(response_times) == TRUE
StdevGuard(response_times) == Len(response_times) > 1
DurationGuard(duration) == duration > 0
LatencyGuard(avg_response_time) == RLt(Zero, avg_response_time)

\* (successful_count / total_requests * 100) if total_requests > 0 else 0
SuccessRate_fraction(successful_count, total_requests) ==
    IF RateGuard(total_requests) THEN Rat(successful_count, total_requests) ELSE Zero
SuccessRate(successful_count, total_requests) ==
    IF RateGuard(total_requests) THEN Rat(successful_count * 100, total_requests) ELSE Zero

\* errors.get(error_type, 0)
DictGet(d, k, default) == IF k \in DOMAIN d THEN d[k] ELSE default
\* errors[error_type] = v
DictSet(d, k, v) == [x \in (DOMAIN d) \cup {k} |-> IF x = k THEN v ELSE d[x]]
EmptyDict == [x \in {} |-> 0]

\* for result in failed_results: errors[error_type] = errors.get(error_type, 0) + 1
RECURSIVE CountErrors(_, _)
CountErrors(failed_results, errors) ==
    IF failed_results = <<>> THEN errors
    ELSE LET error_type == ErrorKey(Head(failed_results)) IN
         CountErrors(Tail(failed_results),
                     DictSet(errors, error_type, DictGet(errors, error_type, 0) + 1))

\* The exception that leaves calculate_metrics, None when it returns: a
\* division by zero, statistics.mean / min / max of an empty list,
\* statistics.stdev of fewer than two values, an index past the sorted list.
calculate_metrics_raises(rs, duration) ==
    LET total_requests == Len(rs)
        successful_results == SelectSeq(rs, IsSuccess)
        successful_count == Len(successful_results)
        response_times == MapField(successful_results, "response_time")
    IN  IF RateGuard(total_requests) /\ total_requests = 0 THEN "ZeroDivisionError"
        ELSE IF ~HasSuccess(successful_results) THEN None
        ELSE IF response_times = <<>> THEN "StatisticsError"
        ELSE IF PctGuard(response_times) /\
                ( PctIndex(successful_count, 95) >= successful_count
                  \/ PctIndex(successful_count, 99) >= successful_count )
             THEN "IndexError"
        ELSE IF StdevGuard(response_times) /\ successful_count < 2 THEN "StatisticsError"
        ELSE IF DurationGuard(duration) /\ duration = 0 THEN "ZeroDivisionError"
        ELSE IF LatencyGuard(Rat(SumSeq(response_times), successful_count))
                /\ SumSeq(response_times) = 0
             THEN "ZeroDivisionError"
        ELSE None

\* The MetricResult calculate_metrics returns.
calculate_metrics(rs, protocol, duration) ==
    LET total_requests == Len(rs)
        successful_results == SelectSeq(rs, IsSuccess)
        failed_results == SelectSeq(rs, IsFailure)
        successful_count == Len(successful_results)
        response_times == MapField(successful_results, "response_time")
        payload_sizes == MapField(successful_results, "payload_size")
        sorted_times == Sorted(response_times)
        some == HasSuccess(successful_results)
        avg_response_time ==
            IF some THEN Rat(SumSeq(response_times), successful_count) ELSE Zero
        avg_payload_size ==
            IF some THEN Rat(SumSeq(payload_sizes), successful_count) ELSE Zero
        total_bytes == IF some THEN SumSeq(payload_sizes) ELSE 0
    IN  [protocol |-> protocol,
         total_requests |-> total_requests,
         successful_requests |-> successful_count,
         failed_requests |-> Len(failed_results),
         success_rate |-> SuccessRate(successful_count, total_requests),
         avg_response_time |-> avg_response_time,
         min_response_time |-> IF some THEN MinOf(response_times) ELSE 0,
         max_response_time |-> IF some THEN MaxOf(response_times) ELSE 0,
         median_response_time |-> IF some THEN Median(sorted_times) ELSE Zero,
         p95_response_time |->
             IF some /\ PctGuard(sorted_times) THEN Percentile(sorted_times, 95) ELSE 0,
         p99_response_time |->
             IF some /\ PctGuard(sorted_times) THEN Percentile(sorted_times, 99) ELSE 0,
         stddev_response_time |->
             IF some /\ StdevGuard(response_times) THEN Stdev(response_times) ELSE NoStdev,
         avg_payload_size |-> avg_payload_size,
         total_bytes_transferred |-> total_bytes,
         throughput |->
             IF some /\ DurationGuard(duration) THEN Rat(successful_count, duration)
             ELSE Zero,
         data_transfer_rate |->
             IF some /\ DurationGuard(duration) THEN Rat(total_bytes, duration) ELSE Zero,
         network_efficiency |->
             IF some /\ LatencyGuard(avg_response_time)
             THEN RDiv(avg_payload_size, avg_response_time) ELSE Zero,
         total_duration |-> duration,
         errors |-> CountErrors(failed_results, EmptyDict)]

\* calculate_metrics as its caller sees it
calculate_metrics_call(rs, protocol, duration) ==
    IF calculate_metrics_raises(rs, duration) # None
    THEN Propagated(calculate_metrics_raises(rs, duration))
    ELSE Returned(calculate_metrics(rs, protocol, duration))

\* ------------------------------------------------------ comparative reporter
Hundred == Rat(100, 1)

\* (a - b) / c * 100 if c else 0
PctOr0(a, b, c) == IF Truthy(c) THEN RMul(RDiv(RSub(a, b), c), Hundred) ELSE Zero

Row(winner, diff_pct) == [winner |-> winner, diff_pct |-> diff_pct]

\* format_console_output.compare: the Winner and Difference columns of one row
compare(rest_val, grpc_val, lower_is_better) ==
    IF rest_val = Zero /\ grpc_val = Zero THEN Row("TIE", Zero)
    ELSE IF lower_is_better
         THEN IF RLt(rest_val, grpc_val)
              THEN Row("REST", PctOr0(grpc_val, rest_val, grpc_val))
              ELSE IF RLt(grpc_val, rest_val)
                   THEN Row("gRPC", PctOr0(rest_val, grpc_val, rest_val))
                   ELSE Row("TIE", Zero)
         ELSE IF RLt(grpc_val, rest_val)
              THEN Row("REST", PctOr0(rest_val, grpc_val, grpc_val))
              ELSE IF RLt(rest_val, grpc_val)
                   THEN Row("gRPC", PctOr0(grpc_val, rest_val, rest_val))
                   ELSE Row("TIE", Zero)

\* format_csv_output.write_comparison: the Winner and Difference_Pct columns
write_comparison(rest_val, grpc_val, lower_is_better) ==
    IF rest_val = Zero /\ grpc_val = Zero THEN Row("TIE", Zero)
    ELSE IF lower_is_better
         THEN IF RLt(rest_val, grpc_val)
              THEN Row("REST", PctOr0(grpc_val, rest_val, grpc_val))
              ELSE Row("gRPC", PctOr0(rest_val, grpc_val, rest_val))
         ELSE IF RLt(grpc_val, rest_val)
              THEN Row("REST", PctOr0(rest_val, grpc_val, grpc_val))
              ELSE Row("gRPC", PctOr0(grpc_val, rest_val, rest_val))

\* Metrics the console table and the JSON comparison block compare
ComparedMetrics ==
    {"avg_response_time", "avg_payload_size", "success_rate", "throughput",
     "network_efficiency"}
\* Metrics the CSV table compares
CsvMetrics == ComparedMetrics \cup {"median_response_time", "p95_response_time"}
\* Fields of the JSON comparison block that carry a percentage
JsonDiffMetrics == {"avg_response_time", "avg_payload_size", "throughput"}

\* lower_is_better as passed for each metric by the console and CSV renderers
LowerIsBetter(metric) ==
    metric \in {"avg_response_time", "avg_payload_size", "median_response_time",
                "p95_response_time"}

\* format_json_output: comparison.winner.<metric>
json_winner(metric, rest_val, grpc_val) ==
    CASE metric = "avg_response_time" ->
           IF RLt(rest_val, grpc_val) THEN "REST" ELSE "gRPC"
      [] metric = "avg_payload_size" ->
           IF RLt(grpc_val, rest_val) THEN "gRPC" ELSE "REST"
      [] metric = "success_rate" ->
           IF RLt(rest_val, grpc_val) THEN "gRPC" ELSE "REST"
      [] metric = "throughput" ->
           IF RLt(grpc_val, rest_val) THEN "REST" ELSE "gRPC"
      [] metric = "network_efficiency" ->
           IF RLt(grpc_val, rest_val) THEN "REST" ELSE "gRPC"

\* format_json_output: comparison.<metric>_diff_pct
json_diff_pct(metric, rest_val, grpc_val) ==
    CASE metric = "avg_response_time" -> PctOr0(grpc_val, rest_val, grpc_val)
      [] metric = "avg_payload_size" -> PctOr0(grpc_val, rest_val, grpc_val)
      [] metric = "throughput" -> PctOr0(rest_val, grpc_val, grpc_val)

\* A MetricResult field as the number the renderers compare
Val(m, metric) == IF metric = "p95_response_time" THEN Rat(m[metric], 1) ELSE m[metric]

\* format_console_output: the CONCLUSION lines divide by the larger average
\* without a zero test; the function raises ZeroDivisionError when that is 0.
ConsoleRaises(rm, gm) ==
    LET time_divisor == IF RLt(rm.avg_response_time, gm.avg_response_time)
                        THEN gm.avg_response_time ELSE rm.avg_response_time
        size_divisor == IF RLt(gm.avg_payload_size, rm.avg_payload_size)
                        THEN rm.avg_payload_size ELSE gm.avg_payload_size
    IN  time_divisor = Zero \/ size_divisor = Zero

format_console_output(rm, gm) ==
    IF ConsoleRaises(rm, gm) THEN Propagated("ZeroDivisionError")
    ELSE Returned([format |-> "console",
                   rows |-> [k \in ComparedMetrics |->
                               compare(Val(rm, k), Val(gm, k), LowerIsBetter(k))]])

format_json_output(rm, gm) ==
    Returned([format |-> "json",
              rows |-> [k \in ComparedMetrics |->
                          Row(json_winner(k, Val(rm, k), Val(gm, k)),
                              IF k \in JsonDiffMetrics
                              THEN json_diff_pct(k, Val(rm, k), Val(gm, k))
                              ELSE Zero)]])

format_csv_output(rm, gm) ==
    Returned([format |-> "csv",
              rows |-> [k \in CsvMetrics |->
                          write_comparison(Val(rm, k), Val(gm, k), LowerIsBetter(k))]])

\* ---------------------------------------------------------------------- main
\* int(token) for the tokens of args.user_id_range.split("-")
ParseInt == [t \in {"0", "1", "2"} |-> CASE t = "0" -> 0 [] t = "1" -> 1 [] t = "2" -> 2]
IsInt(t) == t \in DOMAIN ParseInt

\* --user-id-range values, as split("-") yields them
RangeArgs ==
    {<<"1", "2">>, <<"2", "2">>, <<"2", "1">>, <<"0", "2">>, <<"x", "2">>,
     <<"1">>, <<"1", "2", "2">>}

OutputFormats == {"console", "json", "csv"}

\* min_id, max_id = map(int, ...); raise ValueError("Invalid range")
RangeValid(tokens) ==
    /\ Len(tokens) = 2
    /\ \A i \in 1..2 : IsInt(tokens[i])
    /\ ParseInt[tokens[1]] >= 1
    /\ ParseInt[tokens[2]] >= ParseInt[tokens[1]]

\* What the two probes of test_connectivity can meet: requests.get(..., timeout=5)
\* answers with a status or raises; stub.GetUser(request, timeout=5) answers or raises.
RestProbeOutcomes ==
    [kind : {"response"}, status : {200, 404, 500}] \cup [kind : {"raise"}, status : {0}]
GrpcProbeOutcomes == {"response", "raise"}

\* if not rest_ok or not grpc_ok: ... sys.exit(1)
PreflightFailed_restonly(r, g) == ~r
PreflightFailed(r, g) == ~r \/ ~g

NoMetrics == calculate_metrics(<<>>, None, 0)
NoReport == [raised |-> FALSE, value |-> None]

ParseRange ==
    /\ entry = "main"
    /\ pc = "parse_range"
    /\ IF RangeValid(args.range)
       THEN /\ min_id' = ParseInt[args.range[1]]
            /\ max_id' = ParseInt[args.range[2]]
            /\ pc' = "test_connectivity"
            /\ exit_code' = exit_code
       ELSE /\ pc' = "exit"
            /\ exit_code' = 1
            /\ UNCHANGED <<min_id, max_id>>
    /\ UNCHANGED <<entry, args, rest_ok, grpc_ok, probes, ret, rest_ret, grpc_ret>>
    /\ UNCHANGED <<batchVars, reportVars, cmpVars, metricVars>>

\* tester.test_connectivity() and the check of its two flags
TestConnectivity ==
    /\ entry = "main"
    /\ pc = "test_connectivity"
    /\ \E ro \in RestProbeOutcomes, go \in GrpcProbeOutcomes :
          /\ rest_ok' = (ro.kind = "response" /\ ro.status \in {200, 404})
          /\ grpc_ok' = (go = "response")
    /\ probes' = probes + 2
    /\ IF PreflightFailed(rest_ok', grpc_ok')
       THEN pc' = "exit" /\ exit_code' = 1
       ELSE pc' = "generate_ids" /\ exit_code' = exit_code
    /\ UNCHANGED <<entry, args, min_id, max_id, ret, rest_ret, grpc_ret>>
    /\ UNCHANGED <<batchVars, reportVars, cmpVars, metricVars>>

\* user_ids = [random.randint(min_id, max_id) for _ in range(args.requests)]
GenerateIds ==
    /\ entry = "main"
    /\ pc = "generate_ids"
    /\ user_ids' \in [1..args.requests -> min_id..max_id]
    /\ pc' = "execute_rest"
    /\ UNCHANGED <<entry, args, exit_code, min_id, max_id, rest_ok, grpc_ok, probes, ret,
                   rest_ret, grpc_ret>>
    /\ UNCHANGED <<max_workers, fault, proto, bpc, submitted, started, fstate, fvalue, fnet,
                   yielded, results, calls, channel, closes>>
    /\ UNCHANGED <<reportVars, cmpVars, metricVars>>

CalculateMetrics ==
    /\ entry = "main"
    /\ pc = "calculate_metrics"
    /\ LET rm == calculate_metrics_call(rest_ret.results, "REST", rest_ret.total_duration)
           gm == calculate_metrics_call(grpc_ret.results, "gRPC", grpc_ret.total_duration)
       IN  IF rm.raised \/ gm.raised
           THEN /\ pc' = "exit"
                /\ exit_code' = 1
                /\ UNCHANGED <<rest_metrics, grpc_metrics>>
           ELSE /\ rest_metrics' = rm.value
                /\ grpc_metrics' = gm.value
                /\ pc' = "format_output"
                /\ exit_code' = exit_code
    /\ report' = report
    /\ UNCHANGED <<entry, args, min_id, max_id, rest_ok, grpc_ok, probes, ret,
                   rest_ret, grpc_ret>>
    /\ UNCHANGED <<batchVars, cmpVars, metricVars>>

\* print(format_<args.output>_output(...)); an exception that leaves main ends
\* the process with a traceback and exit status 1.
FormatOutput ==
    /\ entry = "main"
    /\ pc = "format_output"
    /\ report' = CASE args.output = "console" ->
                        format_console_output(rest_metrics, grpc_metrics)
                   [] args.output = "json" ->
                        format_json_output(rest_metrics, grpc_metrics)
                   [] args.output = "csv" ->
                        format_csv_output(rest_metrics, grpc_metrics)
    /\ pc' = "exit"
    /\ exit_code' = IF report'.raised THEN 1 ELSE 0
    /\ UNCHANGED <<rest_metrics, grpc_metrics>>
    /\ UNCHANGED <<entry, args, min_id, max_id, rest_ok, grpc_ok, probes, ret, rest_ret, grpc_ret>>
    /\ UNCHANGED <<batchVars, cmpVars, metricVars>>

\* -------------------------------------------------------------- specification
NoArgs == [range |-> <<>>, requests |-> 0, output |-> None]
\* calculate_metrics has not been called
NotCalled == Returned(NoMetrics)
NoCmp == [metric |-> None, rest_val |-> Zero, grpc_val |-> Zero]
NoRow == Row(None, Zero)

\* Identifier lists of a direct call. An identifier is only carried into its
\* record, so the lists are enumerated up to reordering (nondecreasing ones).
IdLists ==
    {l \in UNION {[1..n -> UserIds] : n \in 0..MaxBatch} :
        \A i \in 1..(Len(l) - 1) : l[i] <= l[i + 1]}

InitBatchIdle ==
    /\ proto = None
    /\ bpc = "idle"
    /\ submitted = 0
    /\ started = 0
    /\ fstate = <<>>
    /\ fvalue = <<>>
    /\ fnet = <<>>
    /\ yielded = {}
    /\ results = <<>>
    /\ calls = <<>>
    /\ channel = None
    /\ closes = 0

InitRest ==
    /\ exit_code = -1
    /\ min_id = 0
    /\ max_id = 0
    /\ rest_ok = FALSE
    /\ grpc_ok = FALSE
    /\ probes = 0
    /\ ret = NoRet
    /\ rest_ret = NoBatchRet
    /\ grpc_ret = NoBatchRet
    /\ rest_metrics = NoMetrics
    /\ grpc_metrics = NoMetrics
    /\ report = NoReport

InitCmpIdle ==
    /\ cmp = NoCmp
    /\ console_row = NoRow
    /\ json_row = NoRow
    /\ csv_row = NoRow

InitMetricsIdle ==
    /\ cm_results = <<>>
    /\ cm_passed = <<>>
    /\ cm_reordered = <<>>
    /\ cm_duration = 0
    /\ cm_ret = NotCalled
    /\ cm_ret_reordered = NotCalled

\* A run of main, or a direct call of one executor with its own arguments.
Init ==
    /\ \/ /\ entry = "main"
          /\ pc = "parse_range"
          /\ args \in [range : RangeArgs, requests : 0..MaxArgRequests,
                       output : OutputFormats]
          /\ user_ids = <<>>
          /\ max_workers = DefaultMaxWorkers
          /\ fault = 0
       \/ /\ entry \in {"execute_rest_requests", "execute_grpc_requests"}
          /\ pc = "call"
          /\ args = NoArgs
          /\ user_ids \in IdLists
          /\ max_workers \in 1..MaxWorkers
          /\ fault \in 0..Len(user_ids)
    /\ InitBatchIdle
    /\ InitRest
    /\ InitCmpIdle
    /\ InitMetricsIdle

Next ==
    \/ ParseRange
    \/ TestConnectivity
    \/ GenerateIds
    \/ BeginBatch("REST")
    \/ BeginBatch("gRPC")
    \/ Submit
    \/ WorkerStart
    \/ \E i \in Positions : WorkerFinish(i)
    \/ \E i \in Positions : Collect(i)
    \/ LeaveWith
    \/ CloseChannel
    \/ ReturnBatch
    \/ RaiseBatch
    \/ CalculateMetrics
    \/ FormatOutput

Spec == Init /\ [][Next]_vars

\* ------------------------------------------------- the comparison, per metric
\* One metric of a pair of MetricResults, handed to each renderer's comparison.
MetricValues == {Rat(v, 1) : v \in 0..MaxVal}

InitCompare ==
    /\ entry = "compare"
    /\ pc = "compare"
    /\ args = NoArgs
    /\ user_ids = <<>>
    /\ max_workers = DefaultMaxWorkers
    /\ fault = 0
    /\ InitBatchIdle
    /\ InitRest
    /\ cmp \in [metric : CsvMetrics, rest_val : MetricValues, grpc_val : MetricValues]
    /\ console_row = NoRow
    /\ json_row = NoRow
    /\ csv_row = NoRow
    /\ InitMetricsIdle

\* The console table's row of the metric
ConsoleCompare ==
    /\ entry = "compare"
    /\ cmp.metric \in ComparedMetrics
    /\ console_row = NoRow
    /\ console_row' = compare(cmp.rest_val, cmp.grpc_val, LowerIsBetter(cmp.metric))
    /\ UNCHANGED <<cmp, json_row, csv_row>>
    /\ UNCHANGED <<callerVars, batchVars, reportVars, metricVars>>

\* The JSON comparison block's entries of the metric
JsonCompare ==
    /\ entry = "compare"
    /\ cmp.metric \in ComparedMetrics
    /\ json_row = NoRow
    /\ json_row' = Row(json_winner(cmp.metric, cmp.rest_val, cmp.grpc_val),
                       IF cmp.metric \in JsonDiffMetrics
                       THEN json_diff_pct(cmp.metric, cmp.rest_val, cmp.grpc_val)
                       ELSE Zero)
    /\ UNCHANGED <<cmp, console_row, csv_row>>
    /\ UNCHANGED <<callerVars, batchVars, reportVars, metricVars>>

\* The CSV table's row of the metric
CsvCompare ==
    /\ entry = "compare"
    /\ csv_row = NoRow
    /\ csv_row' = write_comparison(cmp.rest_val, cmp.grpc_val, LowerIsBetter(cmp.metric))
    /\ UNCHANGED <<cmp, console_row, json_row>>
    /\ UNCHANGED <<callerVars, batchVars, reportVars, metricVars>>

NextCompare == ConsoleCompare \/ JsonCompare \/ CsvCompare

SpecCompare == InitCompare /\ [][NextCompare]_vars

\* ------------------------------------------------------------- scheduling
\* The calling thread runs on; an idle pool thread takes the next queued work
\* item; every driver call ends (requests and grpc are both called with
\* timeout=30).
Fairness ==
    /\ \A p \in {"REST", "gRPC"} : WF_vars(BeginBatch(p))
    /\ WF_vars(Submit)
    /\ WF_vars(WorkerStart)
    /\ \A i \in 1..MaxBatch : WF_vars(i \in DOMAIN fstate /\ WorkerFinish(i))
    /\ \A i \in 1..MaxBatch : WF_vars(i \in DOMAIN fstate /\ Collect(i))
    /\ WF_vars(LeaveWith)
    /\ WF_vars(CloseChannel)
    /\ WF_vars(ReturnBatch)
    /\ WF_vars(RaiseBatch)

\* The same runs, for batches of up to MaxLiveBatch identifiers.
InitLive == Init /\ Len(user_ids) <= MaxLiveBatch

SpecLive == InitLive /\ [][Next]_vars /\ Fairness

\* --------------------------------------- calculate_metrics on its own
\* Records the drivers produce: successes with a latency and a body size,
\* failures with an error kind and no body.
MetricLatencies == {0, 2}
MetricPayloads == {0, 3}
MetricErrorKinds == {"TIMEOUT", "HTTP_404"}
MetricDurations == {0, 1, 2}
FailedLatency == 5

SuccessRecord(lat, size) == RequestResult(TRUE, lat, size, 1, None, None)
FailureRecord(lat, kind) == RequestResult(FALSE, lat, 0, 1, "message", kind)

MetricRecords ==
    {SuccessRecord(lat, size) : lat \in MetricLatencies, size \in MetricPayloads}
    \cup {FailureRecord(FailedLatency, kind) : kind \in MetricErrorKinds}

\* The orders in which as_completed can hand out the futures of one batch.
Reorderings(rs) ==
    LET n == Len(rs)
        perms == {f \in [1..n -> 1..n] : \A i, j \in 1..n : f[i] = f[j] => i = j}
    IN  {[i \in 1..n |-> rs[f[i]]] : f \in perms}

ShortCollections == UNION {[1..n -> MetricRecords] : n \in 0..MaxRecords}

\* Larger batches: every request succeeds, with latencies 1..n met in
\* ascending or descending order, with or without one slow failed request.
LongSizes == {19, 20, 21, 99, 100, 101}
SlowFailure == FailureRecord(1000, "TIMEOUT")
Ramp(n) == [i \in 1..n |-> SuccessRecord(i, 3)]
Reversed(rs) == [i \in 1..Len(rs) |-> rs[(Len(rs) + 1) - i]]
\* Eight successes and two timeouts
EightOfTen == Ramp(8) \o <<SlowFailure, SlowFailure>>
LongCollections ==
    {Ramp(n) : n \in LongSizes} \cup {Reversed(Ramp(n)) : n \in LongSizes}
    \cup {<<SlowFailure>> \o Ramp(n) : n \in LongSizes}
    \cup {EightOfTen}

InitMetrics ==
    /\ entry = "calculate_metrics"
    /\ pc = "call"
    /\ args = NoArgs
    /\ user_ids = <<>>
    /\ max_workers = DefaultMaxWorkers
    /\ fault = 0
    /\ InitBatchIdle
    /\ InitRest
    /\ InitCmpIdle
    /\ \/ cm_results \in ShortCollections /\ cm_reordered \in Reorderings(cm_results)
       \/ cm_results \in LongCollections /\ cm_reordered = Reversed(cm_results)
    /\ cm_passed = cm_results
    /\ cm_duration \in MetricDurations
    /\ cm_ret = NotCalled
    /\ cm_ret_reordered = NotCalled

\* tester.calculate_metrics(results, protocol, duration): the function only
\* reads results; sorted() and the comprehensions build new lists.
CallMetrics ==
    /\ entry = "calculate_metrics"
    /\ pc = "call"
    /\ cm_ret' = calculate_metrics_call(cm_results, "REST", cm_duration)
    /\ pc' = "called"
    /\ UNCHANGED <<cm_results, cm_passed, cm_reordered, cm_duration, cm_ret_reordered>>
    /\ UNCHANGED <<entry, args, exit_code, min_id, max_id, rest_ok, grpc_ok, probes, ret,
                   rest_ret, grpc_ret>>
    /\ UNCHANGED <<batchVars, reportVars, cmpVars>>

\* The same call for the other completion order of the same records.
CallMetricsReordered ==
    /\ entry = "calculate_metrics"
    /\ pc = "called"
    /\ cm_ret_reordered' = calculate_metrics_call(cm_reordered, "REST", cm_duration)
    /\ pc' = "compared"
    /\ UNCHANGED <<cm_results, cm_passed, cm_reordered, cm_duration, cm_ret>>
    /\ UNCHANGED <<entry, args, exit_code, min_id, max_id, rest_ok, grpc_ok, probes, ret,
                   rest_ret, grpc_ret>>
    /\ UNCHANGED <<batchVars, reportVars, cmpVars>>

NextMetrics == CallMetrics \/ CallMetricsReordered

SpecMetrics == InitMetrics /\ [][NextMetrics]_vars

\* ==================================================================== claims
\* A direct executor call has ended (by return or by exception).
CallEnded == pc \in {"returned", "raised"}
\* The batch in progress or last run has ended.
BatchEnded == proto # None /\ bpc \in {"idle", "raised"}

RECURSIVE CountIn(_, _)
CountIn(seq, x) ==
    IF seq = <<>> THEN 0
    ELSE (IF Head(seq) = x THEN 1 ELSE 0) + CountIn(Tail(seq), x)

\* C1: with worker-pool bound W, the number of driver calls that have started
\* and not yet returned is at most W in every reachable state.
C1_InFlightBounded == InFlight <= max_workers

\* C1 witness: a pool of 2 is full while a third submitted identifier waits.
C1_Witness ==
    /\ max_workers = 2
    /\ Len(user_ids) = 3
    /\ InFlight = 2
    /\ submitted = 3
    /\ started = 2

\* C2: the driver is invoked at most once per list position at any time and
\* exactly once by the time the batch ends; a batch that returns hands back
\* one record per position: as many records as identifiers, the same multiset
\* of identifiers, and each record the one its position's future holds.
C2_OncePerPosition ==
    /\ \A i \in Positions : proto # None => calls[i] <= 1
    /\ BatchEnded => \A i \in Positions : calls[i] = 1
    /\ (proto # None /\ bpc \in {"return", "idle"}) =>
          /\ Len(results) = Len(user_ids)
          /\ \A u \in UserIds :
                CountIn(MapField(results, "user_id"), u) = CountIn(user_ids, u)
          /\ \A k \in 1..Len(results) :
                CountIn(results, results[k])
                  = Cardinality({i \in Positions : fvalue[i].value = results[k]})
    /\ ret.status = "returned" => ret.value.results = results

\* C2 witness: a returned batch of three identifiers with a duplicate, whose
\* records arrived in another order than the identifiers were submitted.
C2_Witness ==
    /\ ret.status = "returned"
    /\ user_ids = <<1, 1, 2>>
    /\ results[1].user_id = 2
    /\ ~results[1].success
    /\ results[3].success

\* C3: when one driver invocation of a batch faults, the executor does not
\* raise to its caller and returns the records of all the other requests.
C3_FaultIsolated ==
    (fault # 0 /\ CallEnded) =>
        /\ ret.status = "returned"
        /\ Len(ret.value.results) = Len(user_ids) - 1

\* C4: a run of main whose range is valid and whose pre-flight succeeded ends
\* with exit status 0 and a printed report, whatever the requests' outcomes
\* and the output format.
C4_ReportAlwaysEmitted ==
    (entry = "main" /\ pc = "exit" /\ RangeValid(args.range) /\ rest_ok /\ grpc_ok) =>
        /\ exit_code = 0
        /\ ~report.raised
        /\ report.value.format = args.output

\* C5: for every metric the console, JSON and CSV renderings all compare,
\* the three report the same winner.
C5_WinnersAgree ==
    (console_row # NoRow /\ json_row # NoRow /\ csv_row # NoRow) =>
        /\ console_row.winner = json_row.winner
        /\ console_row.winner = csv_row.winner

\* The protocol with the strictly better value for the metric's direction.
Better(metric, rest_val, grpc_val) ==
    IF LowerIsBetter(metric)
    THEN (IF RLt(rest_val, grpc_val) THEN "REST" ELSE "gRPC")
    ELSE (IF RLt(grpc_val, rest_val) THEN "REST" ELSE "gRPC")

TieRule(row) ==
    IF cmp.rest_val = cmp.grpc_val
    THEN row.winner = "TIE" /\ row.diff_pct = Zero
    ELSE row.winner = Better(cmp.metric, cmp.rest_val, cmp.grpc_val)

\* C6: in the console and CSV comparison of a metric, equal values give winner
\* TIE with a difference of 0, and different values give the protocol with
\* the strictly better value.
C6_TieOnEqual ==
    /\ console_row # NoRow => TieRule(console_row)
    /\ csv_row # NoRow => TieRule(csv_row)

\* |better - worse| / worse * 100, worse the losing protocol's value
LoserRelative(metric, rest_val, grpc_val) ==
    LET restWins == Better(metric, rest_val, grpc_val) = "REST"
        better == IF restWins THEN rest_val ELSE grpc_val
        worse == IF restWins THEN grpc_val ELSE rest_val
    IN  RMul(RDiv(RAbs(RSub(better, worse)), worse), Hundred)

LoserValue(metric, rest_val, grpc_val) ==
    IF Better(metric, rest_val, grpc_val) = "REST" THEN grpc_val ELSE rest_val

DiffRule(row) ==
    (cmp.rest_val # cmp.grpc_val /\ LoserValue(cmp.metric, cmp.rest_val, cmp.grpc_val) # Zero)
        => row.diff_pct = LoserRelative(cmp.metric, cmp.rest_val, cmp.grpc_val)

\* C7: when the two values differ, the percentage each rendering reports (the
\* console and CSV rows, the JSON *_diff_pct fields) is
\* |better - worse| / worse * 100 with worse the losing value.
C7_DiffRelativeToLoser ==
    /\ console_row # NoRow => DiffRule(console_row)
    /\ csv_row # NoRow => DiffRule(csv_row)
    /\ (json_row # NoRow /\ cmp.metric \in JsonDiffMetrics) => DiffRule(json_row)

\* No driver call is pending, queued or in flight on a closed channel, and
\* the channel is never closed twice.
NoUseAfterClose ==
    /\ closes <= 1
    /\ channel = "closed" => (started = Len(user_ids) /\ AllFinished)

\* C8: the shared channel of a gRPC batch is closed exactly once per batch,
\* and only after every worker that uses it has returned.
C8_ClosedOnceAfterWorkers ==
    /\ NoUseAfterClose
    /\ (proto = "gRPC" /\ BatchEnded) => closes = 1

\* C9: no gRPC batch that has ended, by return or by exception, leaves its
\* channel open.
C9_ChannelReleased ==
    (proto = "gRPC" /\ BatchEnded) => channel = "closed"

\* success with no error fields, or failure with an error type and no payload
ValidRecord(r) ==
    \/ r.success /\ r.error_type = None /\ r.error_message = None
    \/ ~r.success /\ r.error_type \notin {None, ""} /\ r.payload_size = 0

\* C10: every call of fetch_user_rest and fetch_user_grpc returns a record,
\* whatever the network call does, and the record is a success without error
\* fields or a failure with a non-empty error type and payload size 0.
C10_DriverAlwaysReturnsRecord ==
    \A i \in Positions :
        (proto # None /\ fstate[i] = "FINISHED" /\ i # fault) =>
            /\ ~fvalue[i].raised
            /\ ValidRecord(fvalue[i].value)

\* The RPC driver's return paths (response, RpcError, any other exception)
\* in one batch.
C10_GrpcPaths ==
    /\ proto = "gRPC"
    /\ fault = 0
    /\ Len(user_ids) = 3
    /\ AllFinished
    /\ fvalue[1].value.success
    /\ fvalue[2].value.error_type = "DEADLINE_EXCEEDED"
    /\ fvalue[3].value.error_type = "ValueError"

\* C10 witness: one batch in which the HTTP driver took its three failure
\* paths (non-200 status, timeout, any other exception).
C10_Witness ==
    /\ proto = "REST"
    /\ fault = 0
    /\ Len(user_ids) = 3
    /\ AllFinished
    /\ fvalue[1].value.error_type = "HTTP_404"
    /\ fvalue[2].value.error_type = "TIMEOUT"
    /\ fvalue[3].value.error_type = "ConnectionError"


\* C11: in both drivers a call that runs past its per-request timeout ends as
\* a failure record whose error_type is exactly "TIMEOUT", so the timeouts of
\* both protocols are counted under one key.
C11_TimeoutKindUniform ==
    proto # None =>
        \A i \in DOMAIN fstate :
            (fstate[i] = "FINISHED" /\ TimedOut(fnet[i])) =>
                /\ ~fvalue[i].raised
                /\ ~fvalue[i].value.success
                /\ fvalue[i].value.error_type = "TIMEOUT"


\* ---- calculate_metrics, checked on its own (SpecMetrics)
MetricsCalled == entry = "calculate_metrics" /\ pc # "call"
SuccessIdx(rs) == {i \in 1..Len(rs) : rs[i].success}
FailureIdx(rs) == {i \in 1..Len(rs) : ~rs[i].success}
\* floor(p/100 * n)
FloorHundredths(p, n) == CHOOSE k \in 0..n : (100 * k) <= (p * n) /\ (p * n) < (100 * (k + 1))
\* v stands at zero-based position idx of the ascending order of the
\* successful latencies of rs
AtSortedIndex(rs, v, idx) ==
    /\ Cardinality({i \in SuccessIdx(rs) : rs[i].response_time < v}) <= idx
    /\ idx < Cardinality({i \in SuccessIdx(rs) : rs[i].response_time <= v})

\* C12: with n >= 1 successful records, p95 is the element at zero-based
\* index floor(0.95 n), and p99 the element at index floor(0.99 n), of the
\* ascending order of the successful latencies only.
C12_PercentileRule ==
    (MetricsCalled /\ SuccessIdx(cm_passed) # {}) =>
        LET n == Cardinality(SuccessIdx(cm_passed)) IN
        /\ ~cm_ret.raised
        /\ AtSortedIndex(cm_passed, cm_ret.value.p95_response_time, FloorHundredths(95, n))
        /\ AtSortedIndex(cm_passed, cm_ret.value.p99_response_time, FloorHundredths(99, n))

\* Latencies 1..100 and one slow failed request: p95 is 96.
C12_Witness ==
    /\ MetricsCalled
    /\ cm_passed = <<SlowFailure>> \o Ramp(100)
    /\ ~cm_ret.raised
    /\ cm_ret.value.p95_response_time = 96
    /\ cm_ret.value.p99_response_time = 100

\* C13: for N records of which K succeeded, total_requests = N,
\* successful_requests = K, failed_requests = N - K and success_rate =
\* K / N * 100, which is 0 when N = 0.
C13_CountsAndRate ==
    MetricsCalled =>
        LET N == Len(cm_passed)
            K == Cardinality(SuccessIdx(cm_passed))
        IN  /\ ~cm_ret.raised
            /\ cm_ret.value.total_requests = N
            /\ cm_ret.value.successful_requests = K
            /\ cm_ret.value.failed_requests = N - K
            /\ IF N = 0 THEN cm_ret.value.success_rate = Zero
               ELSE cm_ret.value.success_rate.n * N = (K * 100) * cm_ret.value.success_rate.d

\* Eight successes and two timeouts give a success rate of 80.
C13_Witness ==
    /\ MetricsCalled
    /\ cm_passed = EightOfTen
    /\ ~cm_ret.raised
    /\ cm_ret.value.success_rate = Rat(80, 1)
    /\ cm_ret.value.failed_requests = 2


\* C14: calculate_metrics never raises and gives 0 for every statistic
\* whose denominator would be zero: with no successful record all latency
\* and payload statistics and the three derived rates; with exactly one the
\* standard deviation; with duration 0 the throughput and the data transfer
\* rate; with a mean latency of 0 the network efficiency.
C14_ZeroDenominators ==
    MetricsCalled =>
        LET K == Cardinality(SuccessIdx(cm_passed))
            m == cm_ret.value
        IN  /\ ~cm_ret.raised
            /\ K = 0 =>
                  /\ m.avg_response_time = Zero
                  /\ m.min_response_time = 0
                  /\ m.max_response_time = 0
                  /\ m.median_response_time = Zero
                  /\ m.p95_response_time = 0
                  /\ m.p99_response_time = 0
                  /\ m.stddev_response_time = NoStdev
                  /\ m.avg_payload_size = Zero
                  /\ m.total_bytes_transferred = 0
                  /\ m.throughput = Zero
                  /\ m.data_transfer_rate = Zero
                  /\ m.network_efficiency = Zero
            /\ K = 1 => m.stddev_response_time = NoStdev
            /\ cm_duration = 0 => (m.throughput = Zero /\ m.data_transfer_rate = Zero)
            /\ (\A i \in SuccessIdx(cm_passed) : cm_passed[i].response_time = 0) =>
                  m.network_efficiency = Zero

\* One success with latency 0 in a batch of duration 0, next to a failure.
C14_Witness ==
    /\ MetricsCalled
    /\ cm_passed = <<SuccessRecord(0, 3), FailureRecord(FailedLatency, "TIMEOUT")>>
    /\ cm_duration = 0
    /\ ~cm_ret.raised
    /\ cm_ret.value.total_bytes_transferred = 3
    /\ cm_ret.value.network_efficiency = Zero

RECURSIVE SumValues(_, _)
SumValues(d, keys) ==
    IF keys = {} THEN 0
    ELSE LET k == CHOOSE x \in keys : TRUE IN d[k] + SumValues(d, keys \ {k})

\* C15: the errors mapping is built from the failed records only: its keys
\* are the error kinds of the failed records, each counted as often as
\* failed records carry it, and the counts add up to failed_requests.
C15_ErrorHistogram ==
    MetricsCalled =>
        LET failed == FailureIdx(cm_passed)
            errors == cm_ret.value.errors
        IN  /\ ~cm_ret.raised
            /\ DOMAIN errors = {cm_passed[i].error_type : i \in failed}
            /\ \A k \in DOMAIN errors :
                  errors[k] = Cardinality({i \in failed : cm_passed[i].error_type = k})
            /\ SumValues(errors, DOMAIN errors) = cm_ret.value.failed_requests
            /\ cm_ret.value.failed_requests = Cardinality(failed)

\* Two timeouts around a success: one key, counted twice.
C15_Witness ==
    /\ MetricsCalled
    /\ cm_passed = <<FailureRecord(FailedLatency, "TIMEOUT"), SuccessRecord(2, 3),
                     FailureRecord(FailedLatency, "TIMEOUT")>>
    /\ ~cm_ret.raised
    /\ DOMAIN cm_ret.value.errors = {"TIMEOUT"}
    /\ cm_ret.value.errors["TIMEOUT"] = 2

\* C18: calculate_metrics gives the same MetricResult for every order in
\* which the same records may have completed (same duration), and leaves
\* the collection it was given as it was.
C18_OrderIndependent ==
    /\ MetricsCalled => cm_results = cm_passed
    /\ (entry = "calculate_metrics" /\ pc = "compared") =>
          /\ ~cm_ret.raised
          /\ cm_ret_reordered = cm_ret

\* 100 successes completed in ascending and in descending order of latency.
C18_Witness ==
    /\ entry = "calculate_metrics"
    /\ pc = "compared"
    /\ cm_passed = Ramp(100)
    /\ cm_reordered # cm_passed
    /\ cm_reordered[1].response_time = 100
    /\ cm_ret_reordered = cm_ret

\* C19: with n >= 1 successful records both percentile indices lie within
\* 0..n-1 (no index error), and min <= p95 <= p99 <= max.
C19_PercentilesInRange ==
    (MetricsCalled /\ SuccessIdx(cm_passed) # {}) =>
        LET n == Cardinality(SuccessIdx(cm_passed))
            m == cm_ret.value
        IN  /\ PctIndex(n, 95) \in 0..(n - 1)
            /\ PctIndex(n, 99) \in 0..(n - 1)
            /\ ~cm_ret.raised
            /\ m.min_response_time <= m.p95_response_time
            /\ m.p95_response_time <= m.p99_response_time
            /\ m.p99_response_time <= m.max_response_time

\* 101 successes: the four values are all different.
C19_Witness ==
    /\ MetricsCalled
    /\ cm_passed = Reversed(Ramp(101))
    /\ ~cm_ret.raised
    /\ cm_ret.value.min_response_time = 1
    /\ cm_ret.value.p95_response_time = 96
    /\ cm_ret.value.p99_response_time = 100
    /\ cm_ret.value.max_response_time = 101


\* A load request has been handed to a worker pool.
LoadDispatched == submitted > 0 \/ \E i \in DOMAIN calls : calls[i] > 0

\* C16: in a run of main no load request is dispatched unless the identifier
\* range was valid and the pre-flight found both endpoints reachable; a
\* malformed range ends the process with status 1 before any network
\* activity, probes included; an unreachable endpoint ends it with status 1
\* before any load request.
C16_LoadOnlyAfterPreflight ==
    entry = "main" =>
        /\ LoadDispatched => (RangeValid(args.range) /\ probes = 2 /\ rest_ok /\ grpc_ok)
        /\ ~RangeValid(args.range) =>
              /\ probes = 0
              /\ ~LoadDispatched
              /\ pc \in {"parse_range", "exit"}
              /\ pc = "exit" => exit_code = 1
        /\ (probes > 0 /\ ~(rest_ok /\ grpc_ok)) =>
              /\ ~LoadDispatched
              /\ pc = "exit"
              /\ exit_code = 1

\* main has passed both checks and its first load request is running.
C16_Witness ==
    /\ entry = "main"
    /\ RangeValid(args.range)
    /\ probes = 2
    /\ proto = "REST"
    /\ submitted = 1
    /\ calls[1] = 1


\* The batch in progress has handed its results back (or is about to:
\* nothing but channel.close() and the return statement is left).
BatchLeftWith == bpc \in {"close", "return"} \/ (bpc = "idle" /\ proto # None)

ReturnsAfterAllRecords ==
    BatchLeftWith =>
        /\ started = Len(user_ids)
        /\ InFlight = 0
        /\ \A i \in DOMAIN fstate : fstate[i] = "FINISHED" /\ ~fvalue[i].raised
        /\ Len(results) = Len(user_ids)

MetricsAfterJoin ==
    (entry = "main" /\ pc \in {"calculate_metrics", "format_output"}) =>
        /\ bpc = "idle"
        /\ InFlight = 0
        /\ \A i \in DOMAIN fstate : fstate[i] = "FINISHED"
        /\ Len(rest_ret.results) = Len(user_ids)
        /\ Len(grpc_ret.results) = Len(user_ids)

\* C17: when every dispatched driver call ends with its record, each batch
\* eventually returns to its caller; it returns only after every dispatched
\* request has produced its record, and main reaches calculate_metrics only
\* after the workers of both batches have joined.
C17_BatchesComplete ==
    /\ [](ReturnsAfterAllRecords /\ MetricsAfterJoin)
    /\ \A p \in {"REST", "gRPC"} :
          (bpc = "run" /\ proto = p /\ fault = 0) ~> (bpc = "idle" /\ proto = p)

\* main at calculate_metrics with the records of both batches.
C17_Witness ==
    /\ entry = "main"
    /\ pc = "calculate_metrics"
    /\ Len(user_ids) = 1
    /\ Len(rest_ret.results) = 1
    /\ Len(grpc_ret.results) = 1
    /\ proto = "gRPC"
    /\ bpc = "idle"

============================================================================
